---- MODULE Spec2Model ----
(***************************************************************************)
(* The extract-text endpoint of main.py: request validation, the gateway   *)
(* call, and the streaming relay (the generator `generate`) that turns     *)
(* upstream chunks into relay events.                                      *)
(*                                                                         *)
(* Text is a sequence of characters.  An attribute of a duck-typed         *)
(* upstream object is a record [kind, val]: kind "absent" (hasattr is      *)
(* False), "null" (None) or "str" (a string, val its characters).          *)
(* A relay event is the dict handed to json.dumps, kept as a record; the   *)
(* "data: ...\n\n" framing adds nothing the properties below read.         *)
(***************************************************************************)
EXTENDS Integers, Sequences, FiniteSets, TLC

VARIABLES
    pc,                 \* position of the handler / generator
    request,            \* request.json
    gateway,            \* client.chat.completions.create: "idle", "open", "failed"
    consumed,           \* chunks the `for chunk in completion` loop has taken so far
    reasoning_content,  \* main.py:114
    answer_content,     \* main.py:115
    is_answering,       \* main.py:116
    events,             \* relay events yielded by generate(), in order
    status,             \* HTTP status of the response (0: none yet)
    body                \* JSON body of a non-streamed response

vars == <<pc, request, gateway, consumed, reasoning_content, answer_content,
          is_answering, events, status, body>>

\* Longest upstream chunk sequence explored.
MaxChunks == 3

Last(s) == s[Len(s)]

----------------------------------------------------------------------------
(* Value domains                                                           *)

Absent == [kind |-> "absent", val |-> <<>>]
Null == [kind |-> "null", val |-> <<>>]
Str(t) == [kind |-> "str", val |-> t]

ReasoningTexts == {<<>>, <<"a">>, <<"b">>}
AnswerTexts == {<<>>, <<"x">>, <<"y">>}

\* chunk.choices[0].delta: reasoning_content is an extra attribute that may be
\* missing, content is a declared Optional[str].
Deltas ==
    [reasoning_content : {Absent, Null} \cup {Str(t) : t \in ReasoningTexts},
     content : {Null} \cup {Str(t) : t \in AnswerTexts}]

UsageFields == {"prompt_tokens", "completion_tokens", "total_tokens"}

\* chunk.usage: attribute missing, None, or an object holding some of the
\* three counters.
NoUsage == [kind |-> "absent", has |-> {},
            val |-> [prompt_tokens |-> 0, completion_tokens |-> 0, total_tokens |-> 0]]
Usages ==
    { NoUsage,
      [kind |-> "null", has |-> {},
       val |-> [prompt_tokens |-> 0, completion_tokens |-> 0, total_tokens |-> 0]],
      [kind |-> "obj", has |-> UsageFields,
       val |-> [prompt_tokens |-> 5, completion_tokens |-> 2, total_tokens |-> 7]],
      [kind |-> "obj", has |-> {"total_tokens"},
       val |-> [prompt_tokens |-> 0, completion_tokens |-> 0, total_tokens |-> 9]] }

\* An upstream chunk: no choices (the request does not ask for n > 1, so a
\* chunk with choices has one), and its usage attribute.
Chunks ==
    {[choices |-> <<>>, usage |-> u] : u \in Usages}
      \cup {[choices |-> <<d>>, usage |-> NoUsage] : d \in Deltas}

\* request.json of an extract-text call: the image field.
Images == {Absent, Null, Str(<<>>), Str(<<"d", "a", "t", "a", ":">>)}
Requests == [image : Images]

\* str(e) of an exception raised by the gateway.
Messages == {"", "Connection error."}

\* The fixed message of main.py:78, rendered in English.
NoImageError == "no image data provided"

\* No JSON body (nothing answered yet, or a streamed response).
NoBody == [empty |-> TRUE]

----------------------------------------------------------------------------
(* Pure helpers of the handler and of generate()                           *)

\* Mutant: `if image_data is None`, which lets the empty string through.
TruthyNotNone(v) == v.kind = "str"

\* `if not image_data`: None (missing key or null) and "" are falsy.
Truthy(v) == v.kind = "str" /\ v.val # <<>>

\* hasattr(chunk, 'usage')
HasUsage(chunk) == chunk.usage.kind # "absent"

\* getattr(chunk.usage, f, 0)
GetAttr(u, f) == IF u.kind = "obj" /\ f \in u.has THEN u.val[f] ELSE 0

UsageEvent(chunk) ==
    [usage |-> [prompt_tokens |-> GetAttr(chunk.usage, "prompt_tokens"),
                completion_tokens |-> GetAttr(chunk.usage, "completion_tokens"),
                total_tokens |-> GetAttr(chunk.usage, "total_tokens")],
     status |-> "completed"]

\* hasattr(delta, 'reasoning_content') and delta.reasoning_content is not None
HasReasoning(delta) == delta.reasoning_content.kind = "str"

\* Mutant: `elif delta.content is not None`, which relays empty deltas.
HasAnswerNotNone(delta) == delta.content.kind = "str"

\* `elif delta.content`
HasAnswer(delta) == delta.content.kind = "str" /\ delta.content.val # <<>>

\* Mutant: the delta is put in front of the accumulator.
AddDeltaPrepend(acc, text) == text \o acc

\* acc += text
AddDelta(acc, text) == acc \o text

ThinkingEvent(rc) == [reasoning_content |-> rc, status |-> "thinking"]

AnsweringEvent(ac) == [answer_content |-> ac, status |-> "answering"]

TerminalEvent(rc, ac) ==
    [status |-> "completed", reasoning_content |-> rc, answer_content |-> ac]

\* The relay state a loop iteration reads and writes; out: events it yields.
RelayState ==
    [reasoning_content |-> reasoning_content, answer_content |-> answer_content,
     is_answering |-> is_answering, out |-> <<>>]

\* Mutant: a chunk without choices also clears the relay state.
OnNoChoicesReset(st, chunk) ==
    [st EXCEPT !.reasoning_content = <<>>, !.answer_content = <<>>,
               !.is_answering = FALSE,
               !.out = IF HasUsage(chunk) THEN <<UsageEvent(chunk)>> ELSE <<>>]

OnNoChoices(st, chunk) ==
    [st EXCEPT !.out = IF HasUsage(chunk) THEN <<UsageEvent(chunk)>> ELSE <<>>]

OnReasoning(st, delta) ==
    LET rc == AddDelta(st.reasoning_content, delta.reasoning_content.val)
    IN  [st EXCEPT !.reasoning_content = rc, !.out = <<ThinkingEvent(rc)>>]

\* Mutant: the event carries the delta instead of the accumulated text.
OnAnswerDeltaOnly(st, delta) ==
    LET ac == AddDelta(st.answer_content, delta.content.val)
    IN  [st EXCEPT !.is_answering = TRUE, !.answer_content = ac,
                   !.out = <<AnsweringEvent(delta.content.val)>>]

\* Mutant: is_answering is not set.
OnAnswerNoFlag(st, delta) ==
    LET ac == AddDelta(st.answer_content, delta.content.val)
    IN  [st EXCEPT !.answer_content = ac, !.out = <<AnsweringEvent(ac)>>]

OnAnswer(st, delta) ==
    LET ac == AddDelta(st.answer_content, delta.content.val)
    IN  [st EXCEPT !.is_answering = TRUE, !.answer_content = ac,
                   !.out = <<AnsweringEvent(ac)>>]

\* One iteration of `for chunk in completion`.
OnChunk(st, chunk) ==
    IF chunk.choices = <<>>
    THEN OnNoChoices(st, chunk)
    ELSE LET delta == chunk.choices[1]
         IN  IF HasReasoning(delta) THEN OnReasoning(st, delta)
             ELSE IF HasAnswer(delta) THEN OnAnswer(st, delta)
             ELSE st

----------------------------------------------------------------------------
(* State machine                                                           *)

Init ==
    /\ pc = "received"
    /\ request \in Requests
    /\ gateway = "idle"
    /\ consumed = <<>>
    /\ reasoning_content = <<>>
    /\ answer_content = <<>>
    /\ is_answering = FALSE
    /\ events = <<>>
    /\ status = 0
    /\ body = NoBody

\* main.py:77-78: missing image, 400.
RejectNoImage ==
    /\ pc = "received"
    /\ ~Truthy(request.image)
    /\ pc' = "responded"
    /\ status' = 400
    /\ body' = [error |-> NoImageError]
    /\ UNCHANGED <<request, gateway, consumed, reasoning_content, answer_content,
                   is_answering, events>>

\* main.py:81-116,166: create() returns the stream; the handler returns the
\* streaming response wrapping generate().
CreateStream ==
    /\ pc = "received"
    /\ Truthy(request.image)
    /\ gateway' = "open"
    /\ pc' = "streaming"
    /\ status' = 200
    /\ reasoning_content' = <<>>
    /\ answer_content' = <<>>
    /\ is_answering' = FALSE
    /\ UNCHANGED <<request, consumed, events, body>>

\* Mutant: the failure is reported as an event of a 200 stream.
CreateRaisesAsEvent(msg) ==
    /\ pc = "received"
    /\ Truthy(request.image)
    /\ gateway' = "failed"
    /\ pc' = "responded"
    /\ status' = 200
    /\ events' = <<[error |-> msg, status |-> "error"]>>
    /\ UNCHANGED <<request, consumed, reasoning_content, answer_content,
                   is_answering, body>>

\* main.py:106 raises; main.py:168-174 answers 500.
CreateRaises(msg) ==
    /\ pc = "received"
    /\ Truthy(request.image)
    /\ gateway' = "failed"
    /\ pc' = "responded"
    /\ status' = 500
    /\ body' = [error |-> msg, status |-> "error"]
    /\ UNCHANGED <<request, consumed, reasoning_content, answer_content,
                   is_answering, events>>

\* main.py:121-156: the loop takes the next chunk.
Consume(chunk) ==
    /\ pc = "streaming"
    /\ Len(consumed) < MaxChunks
    /\ LET st == OnChunk(RelayState, chunk)
       IN  /\ reasoning_content' = st.reasoning_content
           /\ answer_content' = st.answer_content
           /\ is_answering' = st.is_answering
           /\ events' = events \o st.out
    /\ consumed' = Append(consumed, chunk)
    /\ UNCHANGED <<pc, request, gateway, status, body>>

\* Mutant: the terminal event is yielded twice.
ExhaustedTwice ==
    /\ pc = "streaming"
    /\ events' = events \o <<TerminalEvent(reasoning_content, answer_content),
                              TerminalEvent(reasoning_content, answer_content)>>
    /\ pc' = "terminal"
    /\ UNCHANGED <<request, gateway, consumed, reasoning_content, answer_content,
                   is_answering, status, body>>

\* main.py:158-164: the source is exhausted, the terminal event is yielded.
Exhausted ==
    /\ pc = "streaming"
    /\ events' = Append(events, TerminalEvent(reasoning_content, answer_content))
    /\ pc' = "terminal"
    /\ UNCHANGED <<request, gateway, consumed, reasoning_content, answer_content,
                   is_answering, status, body>>

\* main.py:121: the iterator raises.  generate() runs after extract_text has
\* returned, outside its try/except: the exception leaves the generator and
\* the response ends where it is.
IterRaises ==
    /\ pc = "streaming"
    /\ pc' = "aborted"
    /\ UNCHANGED <<request, gateway, consumed, reasoning_content, answer_content,
                   is_answering, events, status, body>>

\* main.py:164: resumed after the terminal yield, generate() returns.
Finish ==
    /\ pc = "terminal"
    /\ pc' = "closed"
    /\ UNCHANGED <<request, gateway, consumed, reasoning_content, answer_content,
                   is_answering, events, status, body>>

Next ==
    \/ RejectNoImage
    \/ CreateStream
    \/ \E msg \in Messages : CreateRaises(msg)
    \/ \E chunk \in Chunks : Consume(chunk)
    \/ Exhausted
    \/ IterRaises
    \/ Finish

Spec == Init /\ [][Next]_vars

----------------------------------------------------------------------------
(* Vocabulary of the properties, stated on the chunks themselves           *)

Front(s) == SubSeq(s, 1, Len(s) - 1)

IsPrefix(s, t) == Len(s) <= Len(t) /\ SubSeq(t, 1, Len(s)) = s

\* The chunk has choices and its delta holds a non-null reasoning delta.
CarriesReasoning(c) ==
    c.choices # <<>> /\ c.choices[1].reasoning_content.kind = "str"

\* The chunk has choices and its delta holds a non-empty answer delta.
CarriesAnswer(c) ==
    /\ c.choices # <<>>
    /\ c.choices[1].content.kind = "str"
    /\ c.choices[1].content.val # <<>>

\* A usage summary: no choices, and a usage attribute.
IsUsageChunk(c) == c.choices = <<>> /\ c.usage.kind # "absent"

\* Has choices, but neither kind of delta.
IsEmptyDeltaChunk(c) ==
    c.choices # <<>> /\ ~CarriesReasoning(c) /\ ~CarriesAnswer(c)

RECURSIVE AllReasoning(_)
\* All non-null reasoning deltas of the chunks, in arrival order.
AllReasoning(chunks) ==
    IF chunks = <<>> THEN <<>>
    ELSE AllReasoning(Front(chunks))
           \o (IF CarriesReasoning(Last(chunks))
               THEN Last(chunks).choices[1].reasoning_content.val ELSE <<>>)

RECURSIVE AllAnswers(_)
\* All non-empty answer deltas of the chunks, in arrival order.
AllAnswers(chunks) ==
    IF chunks = <<>> THEN <<>>
    ELSE AllAnswers(Front(chunks))
           \o (IF CarriesAnswer(Last(chunks))
               THEN Last(chunks).choices[1].content.val ELSE <<>>)

RECURSIVE AnswersWithoutReasoning(_)
\* The non-empty answer deltas of the chunks that hold no non-null reasoning
\* delta, in arrival order.
AnswersWithoutReasoning(chunks) ==
    IF chunks = <<>> THEN <<>>
    ELSE AnswersWithoutReasoning(Front(chunks))
           \o (IF CarriesAnswer(Last(chunks)) /\ ~CarriesReasoning(Last(chunks))
               THEN Last(chunks).choices[1].content.val ELSE <<>>)

IsUsageEvent(e) == "usage" \in DOMAIN e

IsTerminalEvent(e) ==
    e.status = "completed" /\ "usage" \notin DOMAIN e

SourceExhausted == pc \in {"terminal", "closed"}

TerminalIndexes == {i \in DOMAIN events : IsTerminalEvent(events[i])}

CompletedIndexes == {i \in DOMAIN events : events[i].status = "completed"}

UsageChunkIndexes == {i \in DOMAIN consumed : IsUsageChunk(consumed[i])}

\* A step of the loop that took one more chunk.
TookChunk == Len(consumed') = Len(consumed) + 1

----------------------------------------------------------------------------
(* C1 *)

\* C1 as stated: the terminal event's reasoning_content is the concatenation,
\* in arrival order, of all non-null reasoning deltas of the chunks consumed,
\* and its answer_content the concatenation of all non-empty answer deltas.
C1_TerminalCarriesAllDeltas ==
    SourceExhausted =>
        /\ Last(events).reasoning_content = AllReasoning(consumed)
        /\ Last(events).answer_content = AllAnswers(consumed)

\* C1 amended: the terminal event's reasoning_content is the concatenation of
\* all non-null reasoning deltas, and its answer_content the concatenation of
\* the non-empty answer deltas of the chunks that hold no non-null reasoning
\* delta (a chunk holding both is relayed as reasoning only).
C1_TerminalCarriesRelayedDeltas ==
    SourceExhausted =>
        /\ IsTerminalEvent(Last(events))
        /\ Last(events).reasoning_content = AllReasoning(consumed)
        /\ Last(events).answer_content = AnswersWithoutReasoning(consumed)

C1_Witness ==
    /\ pc = "terminal"
    /\ \E i \in DOMAIN consumed :
           CarriesReasoning(consumed[i]) /\ CarriesAnswer(consumed[i])
    /\ Last(events).answer_content = <<"x", "y">>
    /\ Last(events).reasoning_content # <<>>

----------------------------------------------------------------------------
(* C2 *)

\* C2: once an event with status "answering" has been emitted, no later event
\* of the invocation has status "thinking".
C2_StatusNeverRegresses ==
    \A i, j \in DOMAIN events :
        (i < j /\ events[i].status = "answering") => events[j].status # "thinking"

----------------------------------------------------------------------------
(* C3 *)

\* C3 as stated: an invocation whose source is exhausted has emitted exactly
\* one event whose status is "completed", and that event is the last one.
C3_ExactlyOneCompletedStatus ==
    SourceExhausted =>
        /\ Cardinality(CompletedIndexes) = 1
        /\ Last(events).status = "completed"

\* C3 amended: the terminal event (status "completed", carrying both
\* accumulators) is emitted exactly once, when the source is exhausted and not
\* before, and it is the last event; every usage-summary chunk yields one more
\* event whose status is also "completed".
C3_ExactlyOneTerminalEvent ==
    /\ Cardinality(TerminalIndexes) = (IF SourceExhausted THEN 1 ELSE 0)
    /\ \A i \in TerminalIndexes : i = Len(events)
    /\ Cardinality(CompletedIndexes)
         = Cardinality(TerminalIndexes) + Cardinality(UsageChunkIndexes)

C3_Witness ==
    /\ pc = "closed"
    /\ Cardinality(CompletedIndexes) = 3
    /\ IsTerminalEvent(Last(events))

----------------------------------------------------------------------------
(* C4 *)

\* C4: a response that has ended is either a complete event stream ending
\* with the terminal event, or a single error report with no relay event.
C4_NoPartialOutcome ==
    pc \in {"responded", "closed", "aborted"} =>
        \/ /\ events # <<>>
           /\ IsTerminalEvent(Last(events))
           /\ "error" \notin DOMAIN body
        \/ /\ events = <<>>
           /\ "error" \in DOMAIN body

----------------------------------------------------------------------------
(* C5 *)

\* C5: when the gateway call raises, the answer is HTTP 500 with body
\* {error, status: "error"} and no relay event is emitted for the request.
C5_GatewayFailureIs500 ==
    gateway = "failed" =>
        /\ pc = "responded"
        /\ status = 500
        /\ DOMAIN body = {"error", "status"}
        /\ body.status = "error"
        /\ body.error \in Messages
        /\ events = <<>>
        /\ consumed = <<>>

C5_Witness ==
    gateway = "failed" /\ status = 500 /\ body.error = "Connection error."

----------------------------------------------------------------------------
(* C6 *)

\* C6: a request with no image field, or an empty one, is answered HTTP 400
\* with a non-empty error string; the gateway is never called and no relay
\* event is emitted for it.
C6_MissingImageIs400 ==
    (request.image.kind # "str" \/ request.image.val = <<>>) =>
        /\ gateway = "idle"
        /\ events = <<>>
        /\ consumed = <<>>
        /\ pc \in {"received", "responded"}
        /\ pc = "responded" =>
              /\ status = 400
              /\ DOMAIN body = {"error"}
              /\ body.error # ""

C6_Witness ==
    request.image = Str(<<>>) /\ pc = "responded" /\ status = 400

----------------------------------------------------------------------------
(* C7 *)

\* Texts of events of one status grow by extension, up to the terminal event.
EventsExtendEachOther ==
    \A i, j \in DOMAIN events :
        i < j =>
          /\ (events[i].status = "thinking" /\ events[j].status = "thinking")
                => IsPrefix(events[i].reasoning_content, events[j].reasoning_content)
          /\ (events[i].status = "answering" /\ events[j].status = "answering")
                => IsPrefix(events[i].answer_content, events[j].answer_content)
          /\ (events[i].status = "thinking" /\ IsTerminalEvent(events[j]))
                => IsPrefix(events[i].reasoning_content, events[j].reasoning_content)
          /\ (events[i].status = "answering" /\ IsTerminalEvent(events[j]))
                => IsPrefix(events[i].answer_content, events[j].answer_content)

\* C7 as stated: the latest "thinking" event carries all non-null reasoning
\* deltas received so far, the latest "answering" event all non-empty answer
\* deltas received so far, and event texts extend each other.
C7_EventsCarryAllDeltas ==
    /\ (events # <<>> /\ Last(events).status = "thinking")
          => Last(events).reasoning_content = AllReasoning(consumed)
    /\ (events # <<>> /\ Last(events).status = "answering")
          => Last(events).answer_content = AllAnswers(consumed)
    /\ EventsExtendEachOther

\* C7 amended: as stated, except that an "answering" event carries the
\* non-empty answer deltas of the chunks received so far that hold no non-null
\* reasoning delta.
C7_EventsCarryRelayedDeltas ==
    /\ (events # <<>> /\ Last(events).status = "thinking")
          => Last(events).reasoning_content = AllReasoning(consumed)
    /\ (events # <<>> /\ Last(events).status = "answering")
          => Last(events).answer_content = AnswersWithoutReasoning(consumed)
    /\ EventsExtendEachOther

C7_Witness ==
    /\ Len(events) = 3
    /\ events[1].status = "answering"
    /\ events[2].status = "thinking"
    /\ events[3].status = "answering"
    /\ events[3].answer_content = <<"x", "y">>
    /\ CarriesAnswer(consumed[2])

----------------------------------------------------------------------------
(* C8 *)

UsageCounter(c, f) ==
    IF c.usage.kind = "obj" /\ f \in c.usage.has THEN c.usage.val[f] ELSE 0

\* C8: a usage-summary chunk makes the relay emit exactly one usage event and
\* leaves both accumulators and the phase unchanged, and the relay keeps
\* consuming; after a usage chunk, content deltas are still accumulated and
\* emitted, and the terminal event still follows when the source is exhausted.
C8_UsageAnywhere ==
    /\ [][(TookChunk /\ IsUsageChunk(Last(consumed'))) =>
            /\ Len(events') = Len(events) + 1
            /\ SubSeq(events', 1, Len(events)) = events
            /\ IsUsageEvent(Last(events'))
            /\ Last(events').usage
                 = [f \in UsageFields |-> UsageCounter(Last(consumed'), f)]
            /\ UNCHANGED <<reasoning_content, answer_content, is_answering>>
            /\ pc' = "streaming"]_vars
    /\ [][(UsageChunkIndexes # {} /\ TookChunk /\ CarriesReasoning(Last(consumed'))) =>
            /\ reasoning_content'
                 = reasoning_content \o Last(consumed').choices[1].reasoning_content.val
            /\ Len(events') = Len(events) + 1
            /\ Last(events').status = "thinking"
            /\ Last(events').reasoning_content = reasoning_content']_vars
    /\ [][(/\ UsageChunkIndexes # {} /\ TookChunk
           /\ CarriesAnswer(Last(consumed')) /\ ~CarriesReasoning(Last(consumed'))) =>
            /\ answer_content'
                 = answer_content \o Last(consumed').choices[1].content.val
            /\ Len(events') = Len(events) + 1
            /\ Last(events').status = "answering"
            /\ Last(events').answer_content = answer_content']_vars
    /\ [][(UsageChunkIndexes # {} /\ pc = "streaming" /\ pc' = "terminal") =>
            /\ Len(events') = Len(events) + 1
            /\ IsTerminalEvent(Last(events'))]_vars

C8_Witness ==
    /\ pc = "terminal"
    /\ Len(events) = 4
    /\ events[1].status = "thinking"
    /\ IsUsageEvent(events[2])
    /\ events[2].usage.total_tokens = 9
    /\ events[3].status = "answering"
    /\ events[4].reasoning_content # <<>>
    /\ events[4].answer_content # <<>>

----------------------------------------------------------------------------
(* C9 *)

\* Thinking = 0, Answering = 1, Completed = 2.
Phase == IF SourceExhausted THEN 2 ELSE IF is_answering THEN 1 ELSE 0

\* C9: the answer accumulator is non-empty only once is_answering is set; the
\* phase only moves forward; is_answering, once set, is never cleared; and
\* neither accumulator changes after the terminal event.
C9_PhaseMonotonic ==
    /\ [](answer_content # <<>> => is_answering)
    /\ [][/\ Phase' >= Phase
          /\ is_answering => is_answering'
          /\ SourceExhausted =>
                UNCHANGED <<reasoning_content, answer_content>>]_vars

C9_Witness ==
    /\ pc = "closed"
    /\ is_answering
    /\ answer_content # <<>>
    /\ reasoning_content # <<>>

----------------------------------------------------------------------------
(* C10 *)

\* C10: a chunk produces at most one event; a chunk with choices but neither
\* a non-null reasoning delta nor a non-empty answer delta produces no event
\* and changes no relay state; an exhausted upstream of zero chunks, or of
\* such chunks only, yields the terminal event alone, both accumulators empty.
C10_AtMostOneEventPerChunk ==
    /\ [][TookChunk =>
            /\ Len(events') <= Len(events) + 1
            /\ SubSeq(events', 1, Len(events)) = events
            /\ IsEmptyDeltaChunk(Last(consumed')) =>
                  UNCHANGED <<events, reasoning_content, answer_content,
                              is_answering, pc>>]_vars
    /\ []((SourceExhausted /\ \A i \in DOMAIN consumed : IsEmptyDeltaChunk(consumed[i]))
            => events = << [status |-> "completed", reasoning_content |-> <<>>,
                            answer_content |-> <<>>] >>)

C10_Witness ==
    /\ pc = "terminal"
    /\ Len(consumed) = 2
    /\ \A i \in DOMAIN consumed : IsEmptyDeltaChunk(consumed[i])
    /\ consumed[1].choices[1].content = Str(<<>>)
    /\ Len(events) = 1

====
